---- MODULE Spec2Model ----
(***************************************************************************)
(* Verification model of the Sirate Mustaqeem database converters:         *)
(*   src/main.py        QuranDatabaseConverter (extractor, classifier,     *)
(*                      row insertion)                                     *)
(*   src/db_manager.py  create_siratemustaqeem_db (inline classifier)      *)
(*   src/Quran_with_tafseer/clean_and_merrage_with_quran.py  commentary    *)
(*   src/ayahs_positions/mrg_with_base_db.py, src/database_manage.py       *)
(*                      ayah texts and page segments                       *)
(***************************************************************************)
EXTENDS Integers, Sequences, FiniteSets, TLC

VARIABLES
    prog,        \* which converter's insert loop is running: "main" / "db_manager" / "none"
    cursor,      \* <<surah, ayah>> of the next verse of the insert loop, or Done
    quran_row,   \* the row of table quran written by the last loop iteration, or NoRow
    src,         \* the tuples the dump file was written from (what the text stands for)
    content,     \* the text of the dump file, a sequence of characters
    pc,          \* position in parse_arabic_sql: "patterns", "fallback", "store", "done" / "idle"
    pattern,     \* index of the pattern the for loop is at
    tried,       \* the patterns re.findall has been called with so far
    fallback_ran, \* TRUE once the line-by-line parsing has run
    matches,     \* the local list matches
    arabic_verses, \* self.arabic_verses
    ret,         \* return value of parse_arabic_sql, "none" before it returns
    calls,       \* number of calls of parse_arabic_sql so far, the running one included
    first_verses, \* self.arabic_verses as the first call of parse_arabic_sql left it
    urdu_file,   \* data/urdu_translation.txt: whether it exists, its lines and what they stand for
    urdu_translations, \* self.urdu_translations, a mapping from <<sura, aya>> to text
    first_urdu,  \* self.urdu_translations as the first call of parse_urdu_translation left it
    warning,     \* the verse-count warning of parse_arabic_sql: <<expected, found>>, <<>> if none
    simple_file, \* data/arabic_simple.txt, like urdu_file
    arabic_simple, \* self.arabic_simple, a mapping from <<sura, aya>> to text
    db,          \* siratemustaqeem-db.db: whether it exists and the committed rows of its quran table
    outcome,     \* how run() ended, "none" while it has not
    merge_in,    \* the merge script that runs and what it reads: commentary rows, ayah and page entries
    tables,      \* the committed rows of the tafsir, ayahs and ayah_pages tables
    merge_st,    \* runs of the merge script so far, how the last one ended, the tables after the first
    db0,         \* siratemustaqeem-db.db as it was before run() started
    dir,         \* the merge script that reads directories, and the files of ayahs/ and pages/ by name
    listing,     \* the order in which glob / os.listdir gave the file names to the last run
    merge_log    \* what the last run of that script printed

classifyVars == <<prog, cursor, quran_row>>
parseVars == <<src, content, pc, pattern, tried, fallback_ran, matches, arabic_verses, ret,
              warning>>
urduVars == <<urdu_file, urdu_translations, first_urdu>>
dbVars == <<simple_file, arabic_simple, db, outcome, db0>>
mergeVars == <<merge_in, tables, merge_st, dir, listing, merge_log>>
\* what parse_arabic_sql does not touch
extraVars == <<calls, first_verses, urduVars, dbVars, mergeVars>>
vars == <<prog, cursor, quran_row, src, content, pc, pattern, tried, fallback_ran,
          matches, arabic_verses, ret, calls, first_verses, urdu_file,
          urdu_translations, first_urdu, warning, simple_file, arabic_simple, db, outcome,
          merge_in, tables, merge_st, db0, dir, listing, merge_log>>

NoRow == [surahId |-> 0]
Done == <<0, 0>>

(***************************************************************************)
(* Static tables                                                           *)
(***************************************************************************)

\* load_surah_metadata: <<id, ayats>> of the 114 entries (names and place omitted)
surah_metadata == <<
    <<1, 7>>, <<2, 286>>, <<3, 200>>, <<4, 176>>, <<5, 120>>, <<6, 165>>,
    <<7, 206>>, <<8, 75>>, <<9, 129>>, <<10, 109>>, <<11, 123>>, <<12, 111>>,
    <<13, 43>>, <<14, 52>>, <<15, 99>>, <<16, 128>>, <<17, 111>>, <<18, 110>>,
    <<19, 98>>, <<20, 135>>, <<21, 112>>, <<22, 78>>, <<23, 118>>, <<24, 64>>,
    <<25, 77>>, <<26, 227>>, <<27, 93>>, <<28, 88>>, <<29, 69>>, <<30, 60>>,
    <<31, 34>>, <<32, 30>>, <<33, 73>>, <<34, 54>>, <<35, 45>>, <<36, 83>>,
    <<37, 182>>, <<38, 88>>, <<39, 75>>, <<40, 85>>, <<41, 54>>, <<42, 53>>,
    <<43, 89>>, <<44, 59>>, <<45, 37>>, <<46, 35>>, <<47, 38>>, <<48, 29>>,
    <<49, 18>>, <<50, 45>>, <<51, 60>>, <<52, 49>>, <<53, 62>>, <<54, 55>>,
    <<55, 78>>, <<56, 96>>, <<57, 29>>, <<58, 22>>, <<59, 24>>, <<60, 13>>,
    <<61, 14>>, <<62, 11>>, <<63, 11>>, <<64, 18>>, <<65, 12>>, <<66, 12>>,
    <<67, 30>>, <<68, 52>>, <<69, 52>>, <<70, 44>>, <<71, 28>>, <<72, 28>>,
    <<73, 20>>, <<74, 56>>, <<75, 40>>, <<76, 31>>, <<77, 50>>, <<78, 40>>,
    <<79, 46>>, <<80, 42>>, <<81, 29>>, <<82, 19>>, <<83, 36>>, <<84, 25>>,
    <<85, 22>>, <<86, 17>>, <<87, 19>>, <<88, 26>>, <<89, 30>>, <<90, 20>>,
    <<91, 15>>, <<92, 21>>, <<93, 11>>, <<94, 8>>, <<95, 8>>, <<96, 19>>,
    <<97, 5>>, <<98, 8>>, <<99, 8>>, <<100, 11>>, <<101, 11>>, <<102, 8>>,
    <<103, 3>>, <<104, 9>>, <<105, 5>>, <<106, 4>>, <<107, 7>>, <<108, 3>>,
    <<109, 6>>, <<110, 3>>, <<111, 5>>, <<112, 4>>, <<113, 5>>, <<114, 6>> >>

\* faulty variant: every chapter is taken to have one verse
AyahCount_One(surah) == 1

\* number of verses of a chapter, as looked up in the surah metadata
AyahCount(surah) == surah_metadata[surah][2]

\* faulty variant: the second interval starts one verse late
get_juz_boundaries_Gap == <<
    <<1, 1, 2, 141>>, <<2, 143, 2, 252>>, <<2, 253, 3, 92>>,
    <<3, 93, 4, 23>>, <<4, 24, 4, 147>>, <<4, 148, 5, 81>>,
    <<5, 82, 6, 110>>, <<6, 111, 7, 87>>, <<7, 88, 8, 40>>,
    <<8, 41, 9, 92>>, <<9, 93, 11, 5>>, <<11, 6, 12, 52>>,
    <<12, 53, 14, 52>>, <<15, 1, 16, 128>>, <<17, 1, 18, 74>>,
    <<18, 75, 20, 135>>, <<21, 1, 22, 78>>, <<23, 1, 25, 20>>,
    <<25, 21, 27, 55>>, <<27, 56, 29, 45>>, <<29, 46, 33, 30>>,
    <<33, 31, 36, 27>>, <<36, 28, 39, 31>>, <<39, 32, 41, 46>>,
    <<41, 47, 45, 37>>, <<46, 1, 51, 30>>, <<51, 31, 57, 29>>,
    <<58, 1, 66, 12>>, <<67, 1, 77, 50>>, <<78, 1, 114, 6>> >>

get_juz_boundaries == <<
    <<1, 1, 2, 141>>, <<2, 142, 2, 252>>, <<2, 253, 3, 92>>,
    <<3, 93, 4, 23>>, <<4, 24, 4, 147>>, <<4, 148, 5, 81>>,
    <<5, 82, 6, 110>>, <<6, 111, 7, 87>>, <<7, 88, 8, 40>>,
    <<8, 41, 9, 92>>, <<9, 93, 11, 5>>, <<11, 6, 12, 52>>,
    <<12, 53, 14, 52>>, <<15, 1, 16, 128>>, <<17, 1, 18, 74>>,
    <<18, 75, 20, 135>>, <<21, 1, 22, 78>>, <<23, 1, 25, 20>>,
    <<25, 21, 27, 55>>, <<27, 56, 29, 45>>, <<29, 46, 33, 30>>,
    <<33, 31, 36, 27>>, <<36, 28, 39, 31>>, <<39, 32, 41, 46>>,
    <<41, 47, 45, 37>>, <<46, 1, 51, 30>>, <<51, 31, 57, 29>>,
    <<58, 1, 66, 12>>, <<67, 1, 77, 50>>, <<78, 1, 114, 6>> >>

\* db_manager's copy of the table, with the juz number as first component
juz_boundaries == <<
    <<1, 1, 1, 2, 141>>, <<2, 2, 142, 2, 252>>, <<3, 2, 253, 3, 92>>,
    <<4, 3, 93, 4, 23>>, <<5, 4, 24, 4, 147>>, <<6, 4, 148, 5, 81>>,
    <<7, 5, 82, 6, 110>>, <<8, 6, 111, 7, 87>>, <<9, 7, 88, 8, 40>>,
    <<10, 8, 41, 9, 92>>, <<11, 9, 93, 11, 5>>, <<12, 11, 6, 12, 52>>,
    <<13, 12, 53, 14, 52>>, <<14, 15, 1, 16, 128>>, <<15, 17, 1, 18, 74>>,
    <<16, 18, 75, 20, 135>>, <<17, 21, 1, 22, 78>>, <<18, 23, 1, 25, 20>>,
    <<19, 25, 21, 27, 55>>, <<20, 27, 56, 29, 45>>, <<21, 29, 46, 33, 30>>,
    <<22, 33, 31, 36, 27>>, <<23, 36, 28, 39, 31>>, <<24, 39, 32, 41, 46>>,
    <<25, 41, 47, 45, 37>>, <<26, 46, 1, 51, 30>>, <<27, 51, 31, 57, 29>>,
    <<28, 58, 1, 66, 12>>, <<29, 67, 1, 77, 50>>, <<30, 78, 1, 114, 6>> >>

get_sajda_verses == <<
    <<7, 206>>, <<13, 15>>, <<16, 50>>, <<17, 109>>, <<19, 58>>,
    <<22, 18>>, <<22, 77>>, <<25, 60>>, <<27, 26>>, <<32, 15>>,
    <<38, 24>>, <<41, 38>>, <<53, 62>>, <<84, 21>>, <<96, 19>> >>

\* db_manager's copy of the sajda list
sajda_verses == <<
    <<7, 206>>, <<13, 15>>, <<16, 50>>, <<17, 109>>, <<19, 58>>,
    <<22, 18>>, <<22, 77>>, <<25, 60>>, <<27, 26>>, <<32, 15>>,
    <<38, 24>>, <<41, 38>>, <<53, 62>>, <<84, 21>>, <<96, 19>> >>

ruku_boundaries == <<1, 26, 44, 60, 75, 92, 106, 124, 142, 158,
                     177, 189, 204, 219, 235, 249, 260, 274, 286>>

(***************************************************************************)
(* main.py: structural classifier                                          *)
(***************************************************************************)

\* faulty variant: the end-verse test of the start-chapter branch is strict
JuzReturns_StrictEnd(surah, ayah, b) ==
    LET s_start == b[1]
        v_start == b[2]
        s_end   == b[3]
        v_end   == b[4]
    IN  IF surah = s_start /\ ayah >= v_start
        THEN IF surah = s_end /\ ayah < v_end THEN TRUE ELSE surah < s_end
        ELSE IF surah > s_start /\ surah < s_end THEN TRUE
        ELSE surah = s_end /\ ayah <= v_end

\* faulty variant: the start-chapter rule returns without looking at the end verse
JuzReturns_StartFirst(surah, ayah, b) ==
    LET s_start == b[1]
        v_start == b[2]
        s_end   == b[3]
        v_end   == b[4]
    IN  IF surah = s_start /\ ayah >= v_start THEN TRUE
        ELSE IF surah > s_start /\ surah < s_end THEN TRUE
        ELSE surah = s_end /\ ayah <= v_end

\* one iteration of the loop of get_juz_for_verse: TRUE when the if/elif chain
\* reaches a "return juz_no" for boundary tuple b
JuzReturns(surah, ayah, b) ==
    LET s_start == b[1]
        v_start == b[2]
        s_end   == b[3]
        v_end   == b[4]
    IN  IF surah = s_start /\ ayah >= v_start
        THEN IF surah = s_end /\ ayah <= v_end THEN TRUE ELSE surah < s_end
        ELSE IF surah > s_start /\ surah < s_end THEN TRUE
        ELSE surah = s_end /\ ayah <= v_end

RECURSIVE JuzScan(_, _, _)
\* the for loop of get_juz_for_verse from index juz_no on; 0 when the loop
\* ends without a return
JuzScan(surah, ayah, juz_no) ==
    IF juz_no > Len(get_juz_boundaries) THEN 0
    ELSE IF JuzReturns(surah, ayah, get_juz_boundaries[juz_no]) THEN juz_no
    ELSE JuzScan(surah, ayah, juz_no + 1)

get_juz_for_verse(surah, ayah) ==
    LET r == JuzScan(surah, ayah, 1)
    IN  IF r = 0 THEN 1 ELSE r   \* Default to juz 1

\* faulty variant: the comparison with the cutoff is strict
RukuScan_Strict(ayah, i) ==
    LET hits == {j \in i..Len(ruku_boundaries) : ayah < ruku_boundaries[j]}
    IN  IF hits = {} THEN 40 ELSE CHOOSE j \in hits : \A h \in hits : j <= h

RECURSIVE RukuScan(_, _)
\* the for loop over ruku_boundaries (i is the 1-based position, so the
\* returned i is Python's i + 1); 40 when the loop ends without a return
RukuScan(ayah, i) ==
    IF i > Len(ruku_boundaries) THEN 40
    ELSE IF ayah <= ruku_boundaries[i] THEN i
    ELSE RukuScan(ayah, i + 1)

calculate_ruku(surah, ayah) ==
    IF surah = 1 THEN 1
    ELSE IF surah = 2 THEN RukuScan(ayah, 1)
    ELSE (ayah - 1) \div 10 + 1

\* faulty variant: the bucket limits are strict
get_manzil_Strict(para_id) ==
    IF para_id < 4 THEN 1
    ELSE IF para_id < 8 THEN 2
    ELSE IF para_id < 12 THEN 3
    ELSE IF para_id < 16 THEN 4
    ELSE IF para_id < 20 THEN 5
    ELSE IF para_id < 24 THEN 6
    ELSE 7

get_manzil(para_id) ==
    IF para_id <= 4 THEN 1
    ELSE IF para_id <= 8 THEN 2
    ELSE IF para_id <= 12 THEN 3
    ELSE IF para_id <= 16 THEN 4
    ELSE IF para_id <= 20 THEN 5
    ELSE IF para_id <= 24 THEN 6
    ELSE 7

\* faulty variant: the membership test looks at the verse number only
has_sajda_AyahOnly(surah, ayah) ==
    IF \E i \in DOMAIN get_sajda_verses : get_sajda_verses[i][2] = ayah
    THEN 1 ELSE 0

\* has_sajda = 1 if (surah, ayah) in sajda_verses else 0
has_sajda(surah, ayah) ==
    IF \E i \in DOMAIN get_sajda_verses : get_sajda_verses[i] = <<surah, ayah>>
    THEN 1 ELSE 0

(***************************************************************************)
(* db_manager.py: inline classifier of create_siratemustaqeem_db           *)
(***************************************************************************)

\* one iteration of the juz loop: TRUE when one of the three branches breaks
DbJuzBreaks(sura, aya, b) ==
    LET s_start == b[2]
        v_start == b[3]
        s_end   == b[4]
        v_end   == b[5]
    IN  \/ sura = s_start /\ aya >= v_start
        \/ sura > s_start /\ sura < s_end
        \/ sura = s_end /\ aya <= v_end

RECURSIVE DbJuzScan(_, _, _)
\* juz = 1, then the for loop over juz_boundaries with its breaks
DbJuzScan(sura, aya, i) ==
    IF i > Len(juz_boundaries) THEN 1
    ELSE IF DbJuzBreaks(sura, aya, juz_boundaries[i]) THEN juz_boundaries[i][1]
    ELSE DbJuzScan(sura, aya, i + 1)

\* manzilNo as computed in the INSERT of db_manager
DbManzil(juz) == (juz - 1) \div 4 + 1

DbHasSajda(sura, aya) ==
    IF \E i \in DOMAIN sajda_verses : sajda_verses[i] = <<sura, aya>>
    THEN 1 ELSE 0

(***************************************************************************)
(* The insert loops over the verse records                                 *)
(***************************************************************************)

\* the verse after <<surah, ayah>> in a verse list holding the whole corpus
\* in (surah, ayah) order; Done after the last one
NextVerse(v) ==
    IF v[2] < AyahCount(v[1]) THEN <<v[1], v[2] + 1>>
    ELSE IF v[1] < Len(surah_metadata) THEN <<v[1] + 1, 1>>
    ELSE Done

\* the tuple bound by INSERT INTO quran in create_sqlite_database (text
\* columns and ayatId omitted)
MainRow(surah, ayah) ==
    LET para_id == get_juz_for_verse(surah, ayah)
        surah_ruku == calculate_ruku(surah, ayah)
    IN  [ayatNumber  |-> ayah,
         ayatSajda   |-> has_sajda(surah, ayah),
         surahRuku   |-> surah_ruku,
         paraRuku    |-> surah_ruku,
         paraId      |-> para_id,
         manzilNo    |-> get_manzil(para_id),
         ayatVisible |-> 1,
         surahId     |-> surah,
         favourite   |-> 0]

\* the tuple bound by INSERT INTO quran in create_siratemustaqeem_db
DbRow(sura, aya) ==
    LET juz == DbJuzScan(sura, aya, 1)
        surah_ruku == (aya - 1) \div 10 + 1
    IN  [ayatNumber  |-> aya,
         ayatSajda   |-> DbHasSajda(sura, aya),
         surahRuku   |-> surah_ruku,
         paraRuku    |-> surah_ruku,
         paraId      |-> juz,
         manzilNo    |-> DbManzil(juz),
         ayatVisible |-> 1,
         surahId     |-> sura,
         favourite   |-> 0]

\* one iteration of "for verse in self.arabic_verses" of main.py
InsertVerse ==
    /\ prog = "main"
    /\ cursor # Done
    /\ quran_row' = MainRow(cursor[1], cursor[2])
    /\ cursor' = NextVerse(cursor)
    /\ UNCHANGED <<prog, parseVars, extraVars>>

\* one iteration of "for i, verse_data in enumerate(quran_verses)" of db_manager.py
DbInsertVerse ==
    /\ prog = "db_manager"
    /\ cursor # Done
    /\ quran_row' = DbRow(cursor[1], cursor[2])
    /\ cursor' = NextVerse(cursor)
    /\ UNCHANGED <<prog, parseVars, extraVars>>

\* no merge script runs
\* no script is reading the directories
FilesIdle ==
    /\ dir = [script |-> "none", ayahs |-> <<>>, pages |-> <<>>]
    /\ listing = [ayahs |-> <<>>, pages |-> <<>>]
    /\ merge_log = <<>>

MergeIdle ==
    /\ merge_in = [script |-> "none", rows |-> <<>>, ayahs |-> <<>>, pages |-> <<>>]
    /\ tables = [tafsir |-> <<>>, ayahs |-> <<>>, ayah_pages |-> <<>>]
    /\ merge_st = [runs |-> 0, outcome |-> "none", first |-> <<>>]
    /\ FilesIdle

\* no extraction is going on
ParseIdle ==
    /\ src = <<>>
    /\ content = <<>>
    /\ pc = "idle"
    /\ pattern = 0
    /\ tried = {}
    /\ fallback_ran = FALSE
    /\ matches = <<>>
    /\ arabic_verses = <<>>
    /\ ret = "none"
    /\ calls = 0
    /\ first_verses = <<>>
    /\ urdu_file = [exists |-> FALSE, src |-> <<>>, lines |-> <<>>]
    /\ urdu_translations = <<>>
    /\ first_urdu = <<>>
    /\ warning = <<>>
    /\ simple_file = [exists |-> FALSE, src |-> <<>>, lines |-> <<>>]
    /\ arabic_simple = <<>>
    /\ db = [exists |-> FALSE, quran |-> <<>>]
    /\ db0 = db
    /\ outcome = "none"
    /\ MergeIdle

\* a converter starts its insert loop on a verse list that begins at the
\* first verse of some chapter
InitClassify ==
    /\ prog \in {"main", "db_manager"}
    /\ cursor \in {<<s, 1>> : s \in 1..Len(surah_metadata)}
    /\ quran_row = NoRow
    /\ ParseIdle

NextClassify == InsertVerse \/ DbInsertVerse

SpecClassify == InitClassify /\ [][NextClassify]_vars

(***************************************************************************)
(* Properties of the classifier                                            *)
(***************************************************************************)

\* lexicographic order on <<chapter, verse>> pairs
PairLeq(x, y) == x[1] < y[1] \/ (x[1] = y[1] /\ x[2] <= y[2])

IntervalStart(k) == <<get_juz_boundaries[k][1], get_juz_boundaries[k][2]>>
IntervalEnd(k) == <<get_juz_boundaries[k][3], get_juz_boundaries[k][4]>>

InInterval(k, v) == PairLeq(IntervalStart(k), v) /\ PairLeq(v, IntervalEnd(k))

MainInserted == prog = "main" /\ quran_row # NoRow
DbInserted == prog = "db_manager" /\ quran_row # NoRow
RowVerse == <<quran_row.surahId, quran_row.ayatNumber>>

\* C1: every valid (chapter, verse) gets a part in 1..30, the part is the one
\* interval of the boundary table that contains the pair, and the loop of
\* get_juz_for_verse returns before its default
C1_PartIsTheContainingInterval ==
    MainInserted =>
        /\ quran_row.paraId \in 1..30
        /\ InInterval(quran_row.paraId, RowVerse)
        /\ \A k \in 1..30 : InInterval(k, RowVerse) => k = quran_row.paraId
        /\ JuzScan(quran_row.surahId, quran_row.ayatNumber, 1) # 0

\* a verse after the start verse of an interval that starts and ends in
\* the same chapter has been classified
C1_Witness ==
    MainInserted /\ RowVerse = <<4, 100>> /\ quran_row.paraId = 5

\* C2: the boundary table has 30 intervals, starts at (1,1), ends at the last
\* verse of chapter 114, and each interval starts at the corpus successor of
\* the end of the previous one
C2_BoundariesPartitionCorpus ==
    /\ Len(get_juz_boundaries) = 30
    /\ IntervalStart(1) = <<1, 1>>
    /\ IntervalEnd(30) = <<114, AyahCount(114)>>
    /\ \A k \in 1..30 :
          /\ PairLeq(IntervalStart(k), IntervalEnd(k))
          /\ IntervalStart(k)[1] \in 1..114 /\ IntervalEnd(k)[1] \in 1..114
          /\ IntervalStart(k)[2] \in 1..AyahCount(IntervalStart(k)[1])
          /\ IntervalEnd(k)[2] \in 1..AyahCount(IntervalEnd(k)[1])
    /\ \A k \in 1..29 : IntervalStart(k + 1) = NextVerse(IntervalEnd(k))
    /\ (MainInserted /\ cursor # Done /\ \E k \in 1..29 : RowVerse = IntervalEnd(k))
          => InInterval(quran_row.paraId + 1, cursor)

\* the loop has stepped over a boundary that falls on a chapter end
C2_Witness ==
    MainInserted /\ RowVerse = <<14, 52>> /\ cursor = <<15, 1>>

\* C3: the end verse of interval k maps to k and the start verse of interval
\* k+1 maps to k+1, also when both are in the same chapter
C3_EndVerseRuleWins ==
    MainInserted =>
        /\ \A k \in 1..29 :
              /\ RowVerse = IntervalEnd(k) => quran_row.paraId = k
              /\ RowVerse = IntervalStart(k + 1) => quran_row.paraId = k + 1
        /\ RowVerse = <<2, 141>> => quran_row.paraId = 1
        /\ RowVerse = <<2, 142>> => quran_row.paraId = 2

\* the start verse of interval 3, in the chapter where interval 2 ends
C3_Witness ==
    MainInserted /\ RowVerse = <<2, 253>> /\ quran_row.paraId = 3

Bucket(p) ==
    CASE p \in 1..4 -> 1
      [] p \in 5..8 -> 2
      [] p \in 9..12 -> 3
      [] p \in 13..16 -> 4
      [] p \in 17..20 -> 5
      [] p \in 21..24 -> 6
      [] p \in 25..30 -> 7

\* C4: the grouping stored with a part p in 1..30 is the bucket of p
\* (1..4, 5..8, ..., 21..24, 25..30), so 4 -> 1, 5 -> 2, 30 -> 7, and the
\* grouping is non-decreasing in the part
C4_ManzilBuckets ==
    /\ MainInserted =>
          /\ quran_row.manzilNo \in 1..7
          /\ quran_row.manzilNo = Bucket(quran_row.paraId)
          /\ \A q \in 1..30 :
                q <= quran_row.paraId => get_manzil(q) <= quran_row.manzilNo
    /\ get_manzil(4) = 1 /\ get_manzil(5) = 2 /\ get_manzil(30) = 7

C4_Witness ==
    MainInserted /\ quran_row.paraId = 30 /\ quran_row.manzilNo = 7

\* C5: the manzilNo that db_manager stores is in 1..7
C5_DbManzilInRange ==
    DbInserted => quran_row.manzilNo \in 1..7

\* C6: the ruku is 1 in chapter 1, the 1-based index of the first cutoff
\* >= verse in chapter 2, and (verse - 1) div 10 + 1 elsewhere
C6_RukuRule ==
    MainInserted =>
        LET a == quran_row.ayatNumber
            cut == {i \in 1..Len(ruku_boundaries) : ruku_boundaries[i] >= a}
        IN  /\ quran_row.surahId = 1 => quran_row.surahRuku = 1
            /\ quran_row.surahId = 2 =>
                  /\ cut # {}
                  /\ quran_row.surahRuku \in cut
                  /\ \A i \in cut : quran_row.surahRuku <= i
            /\ quran_row.surahId > 2 => quran_row.surahRuku = (a - 1) \div 10 + 1
            /\ RowVerse = <<2, 1>> => quran_row.surahRuku = 1
            /\ RowVerse = <<2, 26>> => quran_row.surahRuku = 2
            /\ RowVerse = <<3, 11>> => quran_row.surahRuku = 2

C6_Witness ==
    MainInserted /\ RowVerse = <<2, 26>> /\ quran_row.surahRuku = 2

SajdaSet ==
    {<<7, 206>>, <<13, 15>>, <<16, 50>>, <<17, 109>>, <<19, 58>>,
     <<22, 18>>, <<22, 77>>, <<25, 60>>, <<27, 26>>, <<32, 15>>,
     <<38, 24>>, <<41, 38>>, <<53, 62>>, <<84, 21>>, <<96, 19>>}

\* C7: the stored prostration flag is 1 exactly for the pairs of the fixed
\* sajda set and 0 for every other pair
C7_SajdaFlag ==
    MainInserted =>
        /\ quran_row.ayatSajda \in {0, 1}
        /\ quran_row.ayatSajda = 1 <=> RowVerse \in SajdaSet
        /\ RowVerse = <<32, 15>> => quran_row.ayatSajda = 1
        /\ RowVerse = <<2, 255>> => quran_row.ayatSajda = 0

C7_Witness ==
    MainInserted /\ RowVerse = <<32, 15>> /\ quran_row.ayatSajda = 1

(***************************************************************************)
(* main.py: parse_arabic_sql, text primitives                              *)
(* A text is a sequence of characters; the keywords INSERT, quran and      *)
(* VALUES are one symbol each.                                             *)
(***************************************************************************)

Whitespace == {" ", "\t", "\n"}                       \* what \s and str.strip() take
DigitSeq == <<"0", "1", "2", "3", "4", "5", "6", "7", "8", "9">>
DigitChars == {DigitSeq[i] : i \in DOMAIN DigitSeq}   \* what \d takes
DigitVal(c) == (CHOOSE i \in DOMAIN DigitSeq : DigitSeq[i] = c) - 1

RECURSIVE SkipWs(_, _)
\* \s* from position i: the first position at or after i that is not whitespace
SkipWs(t, i) ==
    IF i <= Len(t) /\ t[i] \in Whitespace THEN SkipWs(t, i + 1) ELSE i

RECURSIVE SkipDigits(_, _)
\* \d* from position i
SkipDigits(t, i) ==
    IF i <= Len(t) /\ t[i] \in DigitChars THEN SkipDigits(t, i + 1) ELSE i

\* (\d+)\s*,\s* at position i
NumComma(t, i) ==
    LET j == SkipDigits(t, i)
        c == SkipWs(t, j)
    IN  IF j = i \/ c > Len(t) THEN [ok |-> FALSE]
        ELSE IF t[c] # "," THEN [ok |-> FALSE]
        ELSE [ok |-> TRUE, g |-> SubSeq(t, i, j - 1), next |-> SkipWs(t, c + 1)]

\* (\d+)\s*,\s*(\d+)\s*,\s*(\d+)\s*,\s*' at position i; open is the position
\* after the opening quote
ThreeNums(t, i) ==
    LET n1 == NumComma(t, i)
    IN  IF ~n1.ok THEN [ok |-> FALSE]
        ELSE LET n2 == NumComma(t, n1.next)
             IN  IF ~n2.ok THEN [ok |-> FALSE]
                 ELSE LET n3 == NumComma(t, n2.next)
                      IN  IF ~n3.ok THEN [ok |-> FALSE]
                          ELSE IF n3.next > Len(t) THEN [ok |-> FALSE]
                          ELSE IF t[n3.next] # "'" THEN [ok |-> FALSE]
                          ELSE [ok |-> TRUE, g |-> <<n1.g, n2.g, n3.g>>,
                                open |-> n3.next + 1]

RECURSIVE TextEnd(_, _, _)
\* [^']*(?:''[^']*)* from position i, greedy: close is the position of the
\* first quote that is not the first of a pair (0 when the text ends before
\* one), last the position of the last pair passed (0 when none)
TextEnd(t, i, last) ==
    IF i > Len(t) THEN [close |-> 0, last |-> last]
    ELSE IF t[i] # "'" THEN TextEnd(t, i + 1, last)
    ELSE IF i + 1 <= Len(t) /\ t[i + 1] = "'" THEN TextEnd(t, i + 2, i)
    ELSE [close |-> i, last |-> last]

\* the three patterns of parse_arabic_sql: what a match starts with and
\* whether the closing parenthesis is part of the pattern
patterns == <<
    [lead |-> "(", paren |-> TRUE],         \* \( ... '\s*\)
    [lead |-> "VALUES(", paren |-> FALSE],  \* VALUES\s*\( ... '
    [lead |-> "", paren |-> FALSE] >>       \* ... '

\* the position after the leading part of pattern pat at position i, 0 when
\* it does not match there
LeadEnd(t, i, pat) ==
    IF pat.lead = "(" THEN IF t[i] = "(" THEN SkipWs(t, i + 1) ELSE 0
    ELSE IF pat.lead = "VALUES(" THEN
        IF t[i] # "VALUES" THEN 0
        ELSE LET q == SkipWs(t, i + 1)
             IN  IF q > Len(t) THEN 0
                 ELSE IF t[q] = "(" THEN SkipWs(t, q + 1) ELSE 0
    ELSE i

\* one match attempt of pattern pat at position i (the regex engine's
\* backtracking included): the four groups and the position after the match
MatchAt(t, i, pat) ==
    LET start == LeadEnd(t, i, pat)
    IN  IF start = 0 THEN [ok |-> FALSE]
        ELSE LET n == ThreeNums(t, start)
             IN  IF ~n.ok THEN [ok |-> FALSE]
                 ELSE LET e == TextEnd(t, n.open, 0)
                          c == IF e.close # 0 \/ pat.paren THEN e.close ELSE e.last
                          r == SkipWs(t, c + 1)
                      IN  IF c = 0 THEN [ok |-> FALSE]
                          ELSE IF ~pat.paren
                          THEN [ok |-> TRUE, end |-> c + 1,
                                g |-> n.g \o <<SubSeq(t, n.open, c - 1)>>]
                          ELSE IF r > Len(t) THEN [ok |-> FALSE]
                          ELSE IF t[r] # ")" THEN [ok |-> FALSE]
                          ELSE [ok |-> TRUE, end |-> r + 1,
                                g |-> n.g \o <<SubSeq(t, n.open, c - 1)>>]

RECURSIVE FindAllFrom(_, _, _)
\* re.findall(pattern, content) from position i on
FindAllFrom(t, i, pat) ==
    IF i > Len(t) THEN <<>>
    ELSE LET m == MatchAt(t, i, pat)
         IN  IF m.ok THEN <<m.g>> \o FindAllFrom(t, m.end, pat)
             ELSE FindAllFrom(t, i + 1, pat)

findall(p, t) == FindAllFrom(t, 1, patterns[p])

(***************************************************************************)
(* parse_arabic_sql: line-by-line parsing and the str methods it uses      *)
(***************************************************************************)

RECURSIVE Split(_, _)
\* str.split(sep) for a one-symbol separator
Split(t, sep) ==
    IF \A i \in DOMAIN t : t[i] # sep THEN <<t>>
    ELSE LET i == CHOOSE j \in DOMAIN t : t[j] = sep /\ \A h \in 1..(j - 1) : t[h] # sep
         IN  <<SubSeq(t, 1, i - 1)>> \o Split(SubSeq(t, i + 1, Len(t)), sep)

\* "sym in line"
Contains(t, sym) == \E i \in DOMAIN t : t[i] = sym

RECURSIVE LStrip(_, _)
LStrip(t, chars) ==
    IF t # <<>> /\ Head(t) \in chars THEN LStrip(Tail(t), chars) ELSE t

RECURSIVE RStrip(_, _)
RStrip(t, chars) ==
    IF t # <<>> /\ t[Len(t)] \in chars THEN RStrip(SubSeq(t, 1, Len(t) - 1), chars) ELSE t

\* str.strip() and str.strip("'")
Strip(t, chars) == RStrip(LStrip(t, chars), chars)

RECURSIVE JoinComma(_)
\* ','.join(parts)
JoinComma(parts) ==
    IF Len(parts) = 0 THEN <<>>
    ELSE IF Len(parts) = 1 THEN parts[1]
    ELSE parts[1] \o <<",">> \o JoinComma(Tail(parts))

\* re.search(r"\(([^)]+)\)", t): group 1 of the leftmost match, or no match
SearchParens(t) ==
    LET starts == {i \in DOMAIN t :
                      /\ t[i] = "("
                      /\ i + 1 <= Len(t)
                      /\ t[i + 1] # ")"
                      /\ \E j \in (i + 2)..Len(t) : t[j] = ")"}
    IN  IF starts = {} THEN [ok |-> FALSE]
        ELSE LET i == CHOOSE x \in starts : \A y \in starts : x <= y
                 j == CHOOSE x \in (i + 2)..Len(t) :
                         t[x] = ")" /\ \A y \in (i + 2)..(x - 1) : t[y] # ")"
             IN  [ok |-> TRUE, g |-> SubSeq(t, i + 1, j - 1)]

\* the body of "for line in lines": the tuples it appends to matches
FallbackLine(line) ==
    IF ~(Contains(line, "INSERT") /\ Contains(line, "quran")) THEN <<>>
    ELSE IF ~Contains(line, "VALUES") THEN <<>>
    ELSE LET values_part == Strip(Split(line, "VALUES")[2], Whitespace)
             match == SearchParens(values_part)
         IN  IF ~match.ok THEN <<>>
             ELSE LET values == Split(match.g, ",")
                  IN  IF Len(values) < 4 THEN <<>>
                      ELSE << <<Strip(values[1], Whitespace),
                                Strip(values[2], Whitespace),
                                Strip(values[3], Whitespace),
                                Strip(Strip(JoinComma(SubSeq(values, 4, Len(values))),
                                            Whitespace), {"'"})>> >>

RECURSIVE FallbackLines(_)
FallbackLines(lines) ==
    IF lines = <<>> THEN <<>>
    ELSE FallbackLine(Head(lines)) \o FallbackLines(Tail(lines))

\* the alternative parsing of the whole content
FallbackMatches(t) == FallbackLines(Split(t, "\n"))

RECURSIVE DecVal(_)
\* value of a non-empty digit string
DecVal(d) ==
    IF Len(d) = 1 THEN DigitVal(d[1])
    ELSE 10 * DecVal(SubSeq(d, 1, Len(d) - 1)) + DigitVal(d[Len(d)])

\* int(s): surrounding whitespace and one sign are accepted; anything else
\* raises ValueError (ok = FALSE)
PyInt(t) ==
    LET u == Strip(t, Whitespace)
        signed == u # <<>> /\ u[1] \in {"+", "-"}
        body == IF signed THEN Tail(u) ELSE u
    IN  IF body = <<>> \/ \E i \in DOMAIN body : body[i] \notin DigitChars
        THEN [ok |-> FALSE]
        ELSE [ok |-> TRUE,
              val |-> IF signed /\ u[1] = "-" THEN 0 - DecVal(body) ELSE DecVal(body)]

RECURSIVE Replace(_)
\* text.replace("''", "'"): non-overlapping occurrences, left to right
Replace(t) ==
    IF t = <<>> THEN <<>>
    ELSE IF Len(t) >= 2 /\ t[1] = "'" /\ t[2] = "'"
    THEN <<"'">> \o Replace(SubSeq(t, 3, Len(t)))
    ELSE <<Head(t)>> \o Replace(Tail(t))

\* the body of "for match in matches": the records it appends
StoreMatch(match) ==
    IF Len(match) < 4 THEN <<>>
    ELSE LET idx == PyInt(match[1])
             sura == PyInt(match[2])
             aya == PyInt(match[3])
         IN  IF ~idx.ok \/ ~sura.ok \/ ~aya.ok THEN <<>>   \* except ValueError: continue
             ELSE << [id |-> idx.val, surah |-> sura.val, ayah |-> aya.val,
                      arabic |-> Strip(Replace(match[4]), Whitespace)] >>

RECURSIVE StoreMatches(_)
StoreMatches(ms) ==
    IF ms = <<>> THEN <<>> ELSE StoreMatch(Head(ms)) \o StoreMatches(Tail(ms))

\* the sort key lambda x: (x['surah'], x['ayah']), compared as Python tuples
KeyLess(x, y) ==
    x.surah < y.surah \/ (x.surah = y.surah /\ x.ayah < y.ayah)

\* faulty variant: nothing is re-ordered
SortInsert_Append(sorted, r) == Append(sorted, r)

\* list.sort is stable: a record goes after every record whose key is not greater
SortInsert(sorted, r) ==
    LET n == Cardinality({i \in DOMAIN sorted : ~KeyLess(r, sorted[i])})
    IN  SubSeq(sorted, 1, n) \o <<r>> \o SubSeq(sorted, n + 1, Len(sorted))

RECURSIVE SortFrom(_, _)
SortFrom(sorted, rest) ==
    IF rest = <<>> THEN sorted
    ELSE SortFrom(SortInsert(sorted, Head(rest)), Tail(rest))

\* self.arabic_verses.sort(key=lambda x: (x['surah'], x['ayah']))
Sort(records) == SortFrom(<<>>, records)

(***************************************************************************)
(* The dump file                                                           *)
(***************************************************************************)

MaxTuples == 2      \* number of statements in the dump file

\* shapes of a statement in the dump:
\*   paren   (1, 1, 2, 'text'),
\*   values  INSERT quran VALUES (1,1,2,'text',0)
\*   bare    1,1,2,'text'
\*   insert  INSERT quran VALUES (1,+1,2,'text')
\*   short   INSERT quran VALUES (1,1,'text')
Styles == {"paren", "values", "bare", "insert", "short"}

Keys == {<<1, 1>>, <<1, 2>>, <<2, 1>>}

\* verse texts; a quote in a text is written doubled in the dump
Texts == {<<"a">>, <<"a", "'", "b">>, <<"'", "a">>, <<"a", "'", "'">>}

\* every key with a plain text, every text with one key
Items ==
    [style : Styles \ {"short"}, key : Keys, text : {<<"a">>}]
        \cup [style : Styles \ {"short"}, key : {<<1, 1>>}, text : Texts]
        \cup [style : {"short"}, key : {<<1, 1>>}, text : {<<"a">>}]

RECURSIVE NumStr(_)
\* decimal digits of a natural number
NumStr(n) ==
    IF n < 10 THEN <<DigitSeq[n + 1]>>
    ELSE NumStr(n \div 10) \o <<DigitSeq[(n % 10) + 1]>>

RECURSIVE Escape(_)
\* the text as a field of the dump: every quote doubled
Escape(text) ==
    IF text = <<>> THEN <<>>
    ELSE IF Head(text) = "'" THEN <<"'", "'">> \o Escape(Tail(text))
    ELSE <<Head(text)>> \o Escape(Tail(text))

Quoted(text) == <<"'">> \o Escape(text) \o <<"'">>

\* the statement for an item whose sequence id is idx
Statement(item, idx) ==
    LET i == NumStr(idx)
        su == NumStr(item.key[1])
        ay == NumStr(item.key[2])
        q == Quoted(item.text)
        ins == <<"INSERT", " ", "quran", " ", "VALUES", " ", "(">>
    IN  CASE item.style = "paren" ->
               <<"(">> \o i \o <<",", " ">> \o su \o <<",", " ">> \o ay
                       \o <<",", " ">> \o q \o <<")", ",">>
          [] item.style = "values" ->
               ins \o i \o <<",">> \o su \o <<",">> \o ay \o <<",">> \o q
                   \o <<",", "0", ")">>
          [] item.style = "bare" ->
               i \o <<",">> \o su \o <<",">> \o ay \o <<",">> \o q
          [] item.style = "insert" ->
               ins \o i \o <<",", "+">> \o su \o <<",">> \o ay \o <<",">> \o q
                   \o <<")">>
          [] item.style = "short" ->
               ins \o i \o <<",">> \o su \o <<",">> \o q \o <<")">>
          [] item.style = "badint" ->
               ins \o <<"a", ",">> \o su \o <<",">> \o ay \o <<",">> \o q \o <<")">>

RECURSIVE DumpFrom(_, _)
\* the statements of items[n..], one per line, numbered by position
DumpFrom(items, n) ==
    IF n > Len(items) THEN <<>>
    ELSE Statement(items[n], n) \o <<"\n">> \o DumpFrom(items, n + 1)

DumpText(items) == DumpFrom(items, 1)

Dumps == UNION {[1..n -> Items] : n \in 0..MaxTuples}

(***************************************************************************)
(* parse_arabic_sql                                                        *)
(***************************************************************************)

ClassifyIdle ==
    /\ prog = "none"
    /\ cursor = Done
    /\ quran_row = NoRow

\* the converter is constructed on a dump file and parse_arabic_sql has
\* read it
InitParse ==
    /\ ClassifyIdle
    /\ src \in Dumps
    /\ content = DumpText(src)
    /\ pc = "patterns"
    /\ pattern = 1
    /\ tried = {}
    /\ fallback_ran = FALSE
    /\ matches = <<>>
    /\ arabic_verses = <<>>
    /\ ret = "none"
    /\ calls = 1
    /\ first_verses = <<>>
    /\ urdu_file = [exists |-> FALSE, src |-> <<>>, lines |-> <<>>]
    /\ urdu_translations = <<>>
    /\ first_urdu = <<>>
    /\ warning = <<>>
    /\ simple_file = [exists |-> FALSE, src |-> <<>>, lines |-> <<>>]
    /\ arabic_simple = <<>>
    /\ db = [exists |-> FALSE, quran |-> <<>>]
    /\ db0 = db
    /\ outcome = "none"
    /\ MergeIdle

\* faulty variant: the loop never breaks
LoopBreaks_Never(m) == FALSE

\* "if matches: break"
LoopBreaks(m) == m # <<>>

\* one iteration of "for pattern in patterns"
TryPattern ==
    /\ pc = "patterns"
    /\ LET m == findall(pattern, content)
       IN  /\ matches' = m
           /\ tried' = tried \cup {pattern}
           /\ IF LoopBreaks(m) THEN pc' = "store" /\ pattern' = pattern
              ELSE IF pattern < Len(patterns) THEN pc' = pc /\ pattern' = pattern + 1
              ELSE pc' = "fallback" /\ pattern' = pattern
    /\ UNCHANGED <<classifyVars, src, content, fallback_ran, arabic_verses, ret, warning, extraVars>>

\* "if not matches:" after a loop that ended without a break: line-by-line
\* parsing
Fallback ==
    /\ pc = "fallback"
    /\ matches = <<>>
    /\ matches' = FallbackMatches(content)
    /\ fallback_ran' = TRUE
    /\ pc' = "store"
    /\ UNCHANGED <<classifyVars, src, content, pattern, tried, arabic_verses, ret, warning, extraVars>>

\* the second "if not matches:": return False
ParseFail ==
    /\ pc = "store"
    /\ matches = <<>>
    /\ ret' = "False"
    /\ pc' = "done"
    /\ UNCHANGED <<classifyVars, src, content, pattern, tried, fallback_ran,
                   matches, arabic_verses, warning, extraVars>>

\* faulty variant: the list of the previous call is kept
ResetVerses_Keep(old) == old

\* self.arabic_verses = []
ResetVerses(old) == <<>>

\* the number of verses of the whole corpus
ExpectedVerses == 6236

\* store the verses, sort them, warn if they are not the whole corpus,
\* return True
StoreVerses ==
    /\ pc = "store"
    /\ matches # <<>>
    /\ arabic_verses' = Sort(ResetVerses(arabic_verses) \o StoreMatches(matches))
    /\ warning' = IF Len(arabic_verses') # ExpectedVerses
                  THEN <<ExpectedVerses, Len(arabic_verses')>>
                  ELSE <<>>
    /\ ret' = "True"
    /\ pc' = "done"
    /\ UNCHANGED <<classifyVars, src, content, pattern, tried, fallback_ran, matches, extraVars>>

NextParse == TryPattern \/ Fallback \/ ParseFail \/ StoreVerses

SpecParse == InitParse /\ [][NextParse]_vars

(***************************************************************************)
(* Properties of the extractor                                             *)
(***************************************************************************)

\* the statement shapes that a pattern extracts
StylesOf(p) ==
    CASE p = 1 -> {"paren"}
      [] p = 2 -> {"values"}
      [] p = 3 -> {"paren", "values", "bare"}

StyleCount(styles) == Cardinality({i \in DOMAIN src : src[i].style \in styles})

\* C8: the patterns are tried in their listed order, the matches are those
\* of the first pattern that matches anything and of no other pattern, later
\* patterns are not consulted, and the line-by-line parsing runs only when
\* no pattern matched
C8_FirstMatchingPatternOnly ==
    LET hit == {p \in 1..Len(patterns) : findall(p, content) # <<>>}
    IN  /\ pc = "fallback" => hit = {} /\ tried = 1..Len(patterns)
        /\ pc = "patterns" => tried = 1..(pattern - 1) /\ ~fallback_ran
        /\ pc \in {"store", "done"} =>
              IF hit # {}
              THEN LET f == CHOOSE p \in hit : \A q \in hit : p <= q
                   IN  /\ tried = 1..f
                       /\ matches = findall(f, content)
                       /\ Len(matches) = StyleCount(StylesOf(f))
                       /\ ~fallback_ran
              ELSE /\ tried = 1..Len(patterns)
                   /\ fallback_ran
                   /\ Len(matches) = StyleCount({"insert"})

\* a dump with a statement only the first pattern matches and one only the
\* later patterns match has been parsed
C8_Witness ==
    /\ pc = "done"
    /\ \E i, j \in DOMAIN src : src[i].style = "paren" /\ src[j].style = "values"
    /\ Len(matches) = 1
    /\ tried = {1}

\* C9: the stored text of every extracted tuple is the text of its
\* statement, each doubled quote of the field resolved to one quote
C9_DoubledQuoteResolvedOnce ==
    (pc = "done" /\ ret = "True") =>
        \A i \in DOMAIN arabic_verses :
            /\ arabic_verses[i].id \in DOMAIN src
            /\ arabic_verses[i].arabic = src[arabic_verses[i].id].text

\* C10 as stated: the records are in the order in which their statements
\* appear in the dump (the sequence id of a statement is its position)
C10_AppearanceOrder ==
    (pc = "done" /\ ret = "True") =>
        \A i, j \in DOMAIN arabic_verses :
            i < j => arabic_verses[i].id < arabic_verses[j].id

\* C10 amended: the records are the extracted tuples in ascending
\* (chapter, verse) order; appearance order is kept among the records of
\* one (chapter, verse) only
C10_SortedByKeyStable ==
    (pc = "done" /\ ret = "True") =>
        /\ Len(arabic_verses) = Len(matches)
        /\ \A m \in DOMAIN matches :
              \E i \in DOMAIN arabic_verses : arabic_verses[i].id = PyInt(matches[m][1]).val
        /\ \A i, j \in DOMAIN arabic_verses :
              i < j =>
                 /\ ~KeyLess(arabic_verses[j], arabic_verses[i])
                 /\ ~KeyLess(arabic_verses[i], arabic_verses[j])
                       => arabic_verses[i].id < arabic_verses[j].id

\* two statements in descending key order were extracted and stored
C10_Witness ==
    /\ pc = "done"
    /\ Len(arabic_verses) = 2
    /\ src[1].key = <<2, 1>>
    /\ src[2].key = <<1, 2>>
    /\ arabic_verses[1].id = 2


(***************************************************************************)
(* parse_urdu_translation                                                  *)
(***************************************************************************)

\* dict[key] = value
DictSet(d, key, value) ==
    [k \in DOMAIN d \cup {key} |-> IF k = key THEN value ELSE d[k]]

\* the body of the loop for one line: the entry the line stores, or none
\* when the line has no "|", fewer than three fields or a field that int()
\* rejects
UrduEntry(line) ==
    IF ~Contains(line, "|") THEN [ok |-> FALSE]
    ELSE LET parts == Split(Strip(line, Whitespace), "|")
         IN  IF Len(parts) < 3 THEN [ok |-> FALSE]
             ELSE LET sura == PyInt(parts[1])
                      aya == PyInt(parts[2])
                  IN  IF ~sura.ok \/ ~aya.ok THEN [ok |-> FALSE]
                      ELSE [ok |-> TRUE, key |-> <<sura.val, aya.val>>,
                            text |-> parts[3]]

RECURSIVE UrduLoop(_, _, _)
\* for line in lines, from line n on
UrduLoop(lines, n, d) ==
    IF n > Len(lines) THEN d
    ELSE LET e == UrduEntry(lines[n])
         IN  UrduLoop(lines, n + 1, IF e.ok THEN DictSet(d, e.key, e.text) ELSE d)

\* self.urdu_translations = {}
ResetTranslations(old) == <<>>

\* the mapping after parse_urdu_translation: untouched when the file is
\* missing, rebuilt from the lines otherwise
UrduParsed(file, old) ==
    IF ~file.exists THEN old
    ELSE UrduLoop(file.lines, 1, ResetTranslations(old))

\* translation files: a line of a file is written from an item
MaxLines == 2

UrduKeys == {<<1, 1>>, <<1, 2>>}

UrduTexts == {<<"x">>, <<"y">>, <<>>, <<" ">>}

UrduItems ==
    [kind : {"good"}, key : UrduKeys, text : UrduTexts]
        \cup [kind : {"badint", "comment", "short"}, key : {<<1, 1>>}, text : {<<"x">>}]
        \cup [kind : {"extra"}, key : {<<1, 1>>}, text : {<<" ">>}]

\* the line for an item, as readlines() returns it
UrduLine(item) ==
    LET su == NumStr(item.key[1])
        ay == NumStr(item.key[2])
    IN  CASE item.kind = "good" -> su \o <<"|">> \o ay \o <<"|">> \o item.text \o <<"\n">>
          [] item.kind = "extra" ->
               su \o <<"|">> \o ay \o <<"|">> \o item.text \o <<"|", "z", "\n">>
          [] item.kind = "badint" -> <<"a", "|">> \o ay \o <<"|">> \o item.text \o <<"\n">>
          [] item.kind = "short" -> su \o <<"|">> \o ay \o <<"\n">>
          [] item.kind = "comment" -> <<"#", " ">> \o item.text \o <<"\n">>

UrduFile(items) ==
    [exists |-> TRUE, src |-> items, lines |-> [i \in DOMAIN items |-> UrduLine(items[i])]]

NoUrduFile == [exists |-> FALSE, src |-> <<>>, lines |-> <<>>]

UrduFiles == {NoUrduFile} \cup {UrduFile(f) : f \in UNION {[1..n -> UrduItems] : n \in 0..MaxLines}}

\* parse_urdu_translation, called after parse_arabic_sql has returned
ParseUrdu ==
    /\ pc = "done"
    /\ pc' = "urdu_done"
    /\ urdu_translations' = UrduParsed(urdu_file, urdu_translations)
    /\ first_urdu' = IF calls = 1 THEN urdu_translations' ELSE first_urdu
    /\ UNCHANGED <<classifyVars, src, content, pattern, tried, fallback_ran, matches,
                   arabic_verses, ret, calls, first_verses, urdu_file, warning, dbVars, mergeVars>>

(***************************************************************************)
(* The parsers called again on the same files                              *)
(***************************************************************************)

MaxCalls == 2

\* the dumps and files the parsers are called again on
ReparseItems == {it \in Items : it.text = <<"a">> /\ it.style \in {"paren", "insert", "short"}}

ReparseDumps == UNION {[1..n -> ReparseItems] : n \in 0..MaxTuples}

InitReparse ==
    /\ ClassifyIdle
    /\ \/ src \in ReparseDumps /\ urdu_file = NoUrduFile
       \/ src = <<>> /\ urdu_file \in UrduFiles
    /\ content = DumpText(src)
    /\ pc = "patterns"
    /\ pattern = 1
    /\ tried = {}
    /\ fallback_ran = FALSE
    /\ matches = <<>>
    /\ arabic_verses = <<>>
    /\ ret = "none"
    /\ calls = 1
    /\ first_verses = <<>>
    /\ urdu_translations = <<>>
    /\ first_urdu = <<>>
    /\ warning = <<>>
    /\ simple_file = NoUrduFile
    /\ arabic_simple = <<>>
    /\ db = [exists |-> FALSE, quran |-> <<>>]
    /\ db0 = db
    /\ outcome = "none"
    /\ MergeIdle

\* the caller calls parse_arabic_sql and parse_urdu_translation once more on
\* the same files: the locals start afresh, self keeps its fields
ParseAgain ==
    /\ pc = "urdu_done"
    /\ calls < MaxCalls
    /\ calls' = calls + 1
    /\ first_verses' = IF calls = 1 THEN arabic_verses ELSE first_verses
    /\ pc' = "patterns"
    /\ pattern' = 1
    /\ tried' = {}
    /\ fallback_ran' = FALSE
    /\ matches' = <<>>
    /\ ret' = "none"
    /\ UNCHANGED <<classifyVars, src, content, arabic_verses, urduVars, warning, dbVars, mergeVars>>

NextReparse == NextParse \/ ParseUrdu \/ ParseAgain

SpecReparse == InitReparse /\ [][NextReparse]_vars

\* C11: after a repeated call on the same text the verse records equal those
\* left by the first call, nothing of the first call being kept beside
\* them, and the translation mapping after a repeated call is the mapping
\* built from the file alone
C11_RepeatedParseLeavesSameResult ==
    /\ (calls > 1 /\ pc \in {"done", "urdu_done"}) => arabic_verses = first_verses
    /\ (calls > 1 /\ pc = "urdu_done") =>
          /\ urdu_translations = first_urdu
          /\ urdu_file.exists => urdu_translations = UrduLoop(urdu_file.lines, 1, <<>>)

\* both parsers have run twice on files that give them something to store
C11_Witness ==
    /\ calls = 2
    /\ pc = "urdu_done"
    /\ \/ Len(arabic_verses) = 2 /\ ret = "True"
       \/ DOMAIN urdu_translations = UrduKeys

(***************************************************************************)
(* run(): the parsers, then create_sqlite_database                         *)
(***************************************************************************)

\* parse_arabic_simple: the mapping is emptied, then filled by the same loop
\* as parse_urdu_translation when the file exists
ParseSimple ==
    /\ pc = "urdu_done"
    /\ pc' = "simple_done"
    /\ arabic_simple' = IF simple_file.exists THEN UrduLoop(simple_file.lines, 1, <<>>)
                        ELSE <<>>
    /\ UNCHANGED <<classifyVars, src, content, pattern, tried, fallback_ran, matches,
                   arabic_verses, ret, warning, calls, first_verses, urduVars,
                   simple_file, db, outcome, db0, mergeVars>>

\* dict.get(key, default)
DictGet(d, key, default) == IF key \in DOMAIN d THEN d[key] ELSE default

\* the text standing for a missing translation
Placeholder(surah, ayah) == <<"placeholder", " ">> \o NumStr(surah) \o <<":">> \o NumStr(ayah)

\* faulty variant: the id is used even when it is not positive
AyatId_Raw(verse) == verse.id

\* ayat_id = verse['id'] if verse['id'] > 0 else (surah * 1000 + ayah)
AyatId(verse) == IF verse.id > 0 THEN verse.id ELSE verse.surah * 1000 + verse.ayah

\* the tuple bound by INSERT INTO quran for a verse record
QuranRow(verse) ==
    LET key == <<verse.surah, verse.ayah>>
    IN  MainRow(verse.surah, verse.ayah)
            @@ [ayatId          |-> AyatId(verse),
                arabicText      |-> verse.arabic,
                urduTranslation |-> DictGet(urdu_translations, key,
                                            Placeholder(verse.surah, verse.ayah)),
                withoutAerab    |-> DictGet(arabic_simple, key, verse.arabic)]

RECURSIVE InsertVerses(_, _, _)
\* for verse in self.arabic_verses: INSERT INTO quran; ayatId is the primary
\* key, so an insert of an ayatId already in the table raises IntegrityError
InsertVerses(verses, n, rows) ==
    IF n > Len(verses) THEN [ok |-> TRUE, rows |-> rows]
    ELSE LET row == QuranRow(verses[n])
         IN  IF \E i \in DOMAIN rows : rows[i].ayatId = row.ayatId
             THEN [ok |-> FALSE, rows |-> rows]
             ELSE InsertVerses(verses, n + 1, Append(rows, row))

\* create_sqlite_database: an existing file is removed, the tables are
\* created, the verses inserted and committed; an exception leaves the new
\* file with the insertions uncommitted and ends run()
CreateDatabase ==
    /\ pc = "simple_done"
    /\ pc' = "end"
    /\ LET r == InsertVerses(arabic_verses, 1, <<>>)
       IN  /\ db' = [exists |-> TRUE, quran |-> IF r.ok THEN r.rows ELSE <<>>]
           /\ outcome' = IF r.ok THEN "completed" ELSE "IntegrityError"
    /\ UNCHANGED <<classifyVars, src, content, pattern, tried, fallback_ran, matches,
                   arabic_verses, ret, warning, calls, first_verses, urduVars,
                   simple_file, arabic_simple, db0, mergeVars>>

\* if not self.parse_arabic_sql(): return
RunStop ==
    /\ pc = "done"
    /\ ret = "False"
    /\ pc' = "end"
    /\ outcome' = "stopped"
    /\ UNCHANGED <<classifyVars, src, content, pattern, tried, fallback_ran, matches,
                   arabic_verses, ret, warning, calls, first_verses, urduVars,
                   simple_file, arabic_simple, db, db0, mergeVars>>

\* self.parse_urdu_translation(), reached when parse_arabic_sql returned True
RunParseUrdu == ret = "True" /\ ParseUrdu

\* dumps whose statements carry their own sequence ids
RunItems ==
    [style : {"paren"}, key : UrduKeys, text : {<<"a">>}, id : 0..2]
        \cup [style : {"paren"}, key : {<<1, 1>>}, text : {<<>>}, id : {1}]
        \cup [style : {"badint"}, key : {<<1, 1>>}, text : {<<"a">>}, id : {1}]
        \cup [style : {"insert"}, key : {<<1, 1>>}, text : {<<"a">>}, id : {2}]
        \cup [style : {"paren"}, key : {<<1, 2>>}, text : {<<"a">>}, id : {1001}]
        \cup [style : {"paren"}, key : {<<2, 286>>, <<2, 287>>}, text : {<<"a">>}, id : {1}]

\* chapter 1, verses 1..7, in one statement style, with their own ids or with
\* id 0 throughout
FatihaDumps ==
    {[n \in 1..7 |-> [style |-> st, key |-> <<1, n>>, text |-> <<"a">>,
                      id |-> IF ids THEN n ELSE 0]] :
        st \in {"paren", "bare"}, ids \in BOOLEAN}

RunDumps == FatihaDumps \cup UNION {[1..n -> RunItems] : n \in 0..MaxTuples}

RECURSIVE RunDumpText(_)
RunDumpText(items) ==
    IF items = <<>> THEN <<>>
    ELSE Statement(Head(items), Head(items).id) \o <<"\n">> \o RunDumpText(Tail(items))

\* a file left by an earlier run
StaleDb == [exists |-> TRUE, quran |-> <<[ayatId |-> 9]>>]

\* run() on a dump; either the dump or one of the text files varies
InitRun ==
    /\ ClassifyIdle
    /\ \/ src \in RunDumps /\ urdu_file = NoUrduFile /\ simple_file = NoUrduFile
       \/ /\ src = <<[style |-> "paren", key |-> <<1, 1>>, text |-> <<"a">>, id |-> 1]>>
          /\ \/ urdu_file \in UrduFiles /\ simple_file = NoUrduFile
             \/ urdu_file = NoUrduFile /\ simple_file \in UrduFiles
    /\ content = RunDumpText(src)
    /\ pc = "patterns"
    /\ pattern = 1
    /\ tried = {}
    /\ fallback_ran = FALSE
    /\ matches = <<>>
    /\ arabic_verses = <<>>
    /\ ret = "none"
    /\ calls = 1
    /\ first_verses = <<>>
    /\ urdu_translations = <<>>
    /\ first_urdu = <<>>
    /\ warning = <<>>
    /\ arabic_simple = <<>>
    /\ db \in {[exists |-> FALSE, quran |-> <<>>], StaleDb}
    /\ db0 = db
    /\ outcome = "none"
    /\ MergeIdle

NextRun == NextParse \/ RunStop \/ RunParseUrdu \/ ParseSimple \/ CreateDatabase

SpecRun == InitRun /\ [][NextRun]_vars

\* C12 as stated: whenever the extractor leaves no verse record, because
\* nothing matched or because every matched tuple was dropped,
\* parse_arabic_sql returns False and run() stops without creating a database
C12_EmptyOutputIsFailure ==
    (pc \in {"done", "urdu_done", "simple_done", "end"} /\ arabic_verses = <<>>) =>
        /\ ret = "False"
        /\ pc = "end" => outcome = "stopped" /\ db \in {[exists |-> FALSE, quran |-> <<>>], StaleDb}

\* C13 as stated: a matched tuple whose text is empty once its quotes are
\* resolved is dropped, so no verse record with an empty text is stored in
\* arabic_verses or inserted into the quran table
C13_EmptyTextDropped ==
    /\ (pc \in {"done", "urdu_done", "simple_done", "end"}) =>
          \A i \in DOMAIN arabic_verses : arabic_verses[i].arabic # <<>>
    /\ pc = "end" => \A i \in DOMAIN db.quran : db.quran[i] = [ayatId |-> 9]
                                                 \/ db.quran[i].arabicText # <<>>

\* C14: for a dump holding chapter 1, verses 1..7 and nothing else, run()
\* completes, the quran table holds exactly 7 rows, one per verse, each
\* with part 1, grouping 1 and prostration flag 0, and the warning reports
\* 7 found against 6236 expected
C14_SevenVersesWarnOnly ==
    (src \in FatihaDumps /\ pc = "end") =>
        /\ outcome = "completed"
        /\ warning = <<6236, 7>>
        /\ Len(db.quran) = 7
        /\ {<<db.quran[i].surahId, db.quran[i].ayatNumber>> : i \in DOMAIN db.quran}
              = {<<1, n>> : n \in 1..7}
        /\ \A i \in DOMAIN db.quran :
              /\ db.quran[i].paraId = 1
              /\ db.quran[i].manzilNo = 1
              /\ db.quran[i].ayatSajda = 0

\* run() has ended on a seven-verse dump whose statements all carry id 0
C14_Witness ==
    /\ src \in FatihaDumps
    /\ src[1].id = 0
    /\ pc = "end"
    /\ Len(arabic_verses) = 7
    /\ db.exists

\* C15 as stated: when two verse records share their (chapter, verse), the
\* run fails, whatever their sequence ids, and the quran table never holds
\* both
C15_DuplicateKeyFailsRun ==
    (pc = "end" /\ \E i, j \in DOMAIN arabic_verses :
                      /\ i # j
                      /\ arabic_verses[i].surah = arabic_verses[j].surah
                      /\ arabic_verses[i].ayah = arabic_verses[j].ayah) =>
        /\ outcome # "completed"
        /\ ~\E i, j \in DOMAIN db.quran :
              /\ i # j
              /\ db.quran[i].surahId = db.quran[j].surahId
              /\ db.quran[i].ayatNumber = db.quran[j].ayatNumber

(***************************************************************************)
(* clean_and_merrage_with_quran.py: clean_text                             *)
(* A text is a sequence of symbols; "<br>" stands for a line-break tag in  *)
(* any of its spellings.                                                   *)
(***************************************************************************)

\* re.sub(r'<br\s*/?>', '\n', text, flags=re.IGNORECASE)
BrToNewline(t) == [i \in DOMAIN t |-> IF t[i] = "<br>" THEN "\n" ELSE t[i]]

RECURSIVE StripTags(_)
\* re.sub(r'<[^>]+>', '', text): a "<", one symbol or more that are not ">",
\* and the first ">" after them
StripTags(t) ==
    IF t = <<>> THEN <<>>
    ELSE IF Head(t) = "<" /\ \E j \in 3..Len(t) : t[j] = ">" /\ \A h \in 2..(j - 1) : t[h] # ">"
    THEN LET j == CHOOSE k \in 3..Len(t) : t[k] = ">" /\ \A h \in 2..(k - 1) : t[h] # ">"
         IN  StripTags(SubSeq(t, j + 1, Len(t)))
    ELSE <<Head(t)>> \o StripTags(Tail(t))

RECURSIVE CollapseBlankLines(_)
\* re.sub(r'\n\s*\n', '\n\n', text): a newline, then the whitespace run
\* after it up to its last newline
CollapseBlankLines(t) ==
    IF t = <<>> THEN <<>>
    ELSE LET ends == {j \in 2..Len(t) : t[j] = "\n" /\ \A h \in 2..j : t[h] \in Whitespace}
         IN  IF Head(t) = "\n" /\ ends # {}
             THEN LET j == CHOOSE k \in ends : \A h \in ends : h <= k
                  IN  <<"\n", "\n">> \o CollapseBlankLines(SubSeq(t, j + 1, Len(t)))
             ELSE <<Head(t)>> \o CollapseBlankLines(Tail(t))

RECURSIVE CollapseSpaces(_)
\* re.sub(r'[ \t]+', ' ', text)
CollapseSpaces(t) ==
    IF t = <<>> THEN <<>>
    ELSE IF Head(t) \in {" ", "\t"} THEN <<" ">> \o CollapseSpaces(LStrip(t, {" ", "\t"}))
    ELSE <<Head(t)>> \o CollapseSpaces(Tail(t))

\* faulty variant: the result is not stripped
clean_text_NoStrip(text) == CollapseSpaces(CollapseBlankLines(StripTags(BrToNewline(text))))

\* clean_text(text); a NULL Tafsir column reaches it as the empty text
clean_text(text) ==
    Strip(CollapseSpaces(CollapseBlankLines(StripTags(BrToNewline(text)))), Whitespace)

(***************************************************************************)
(* The merge scripts: clean_and_merrage_with_quran.py (commentary),        *)
(* mrg_with_base_db.py and database_manage.py (ayah texts, page segments). *)
(* A table is the sequence of its rows, pk being the primary key.          *)
(***************************************************************************)

\* faulty variant: INSERT OR IGNORE, the row already there wins
InsertOrReplace_Ignore(table, row) ==
    IF \E i \in DOMAIN table : table[i].pk = row.pk THEN table ELSE Append(table, row)

\* faulty variant: a plain INSERT that keeps the row already there
InsertOrReplace_Append(table, row) == Append(table, row)

\* INSERT OR REPLACE: the row with the same primary key, if any, is deleted
\* and the new row inserted
InsertOrReplace(table, row) ==
    SelectSeq(table, LAMBDA r : r.pk # row.pk) \o <<row>>

RECURSIVE TafsirLoop(_, _, _)
\* for row in rows: a row whose cleaned text is not empty is written
TafsirLoop(rows, n, table) ==
    IF n > Len(rows) THEN table
    ELSE LET cleaned == clean_text(rows[n].text)
             row == [pk |-> <<rows[n].sura, rows[n].aya>>, text |-> cleaned]
         IN  TafsirLoop(rows, n + 1,
                        IF cleaned # <<>> THEN InsertOrReplace(table, row) ELSE table)

\* the entries the ayahs loop passes over: mrg_with_base_db.py wants the three
\* fields present and true, database_manage.py wants them present
AyahSkipped(script, e) ==
    IF script = "mrg_with_base_db"
    THEN ~({"aya_id", "sura_id", "text"} \subseteq e.keys /\ e.text # <<>>)
    ELSE ~({"aya_id", "sura_id", "text"} \subseteq e.keys)

RECURSIVE AyahsLoop(_, _, _, _)
\* for entry in data: INSERT OR REPLACE INTO ayahs, aya_id being the key
AyahsLoop(script, entries, n, table) ==
    IF n > Len(entries) THEN table
    ELSE LET e == entries[n]
             row == [pk |-> e.aya_id, sura_id |-> e.sura_id, text |-> e.text]
         IN  AyahsLoop(script, entries, n + 1,
                       IF AyahSkipped(script, e) THEN table ELSE InsertOrReplace(table, row))

RECURSIVE PagesLoop(_, _, _, _)
\* the pages loop. mrg_with_base_db.py passes over an entry without its two
\* ids and lets page_id count up; database_manage.py reads entry["sura_id"]
\* and entry["aya_id"] unguarded, which raises KeyError, and numbers the
\* rows by enumerate(pages_data, start=1)
PagesLoop(script, entries, n, table) ==
    IF n > Len(entries) THEN [ok |-> TRUE, rows |-> table]
    ELSE LET e == entries[n]
             has == {"aya_id", "sura_id"} \subseteq e.keys
             row == [pk |-> IF script = "mrg_with_base_db" THEN Len(table) + 1 ELSE n,
                     sura_id |-> e.sura_id, aya_id |-> e.aya_id, segs |-> e.segs]
         IN  IF has THEN PagesLoop(script, entries, n + 1, InsertOrReplace(table, row))
             ELSE IF script = "mrg_with_base_db" THEN PagesLoop(script, entries, n + 1, table)
             ELSE [ok |-> FALSE, rows |-> table]

\* one run of clean_and_merrage_with_quran.py on the main database
CleanAndMerge ==
    /\ merge_in.script = "clean_and_merge"
    /\ merge_st.runs < MaxCalls
    /\ tables' = [tables EXCEPT !.tafsir = TafsirLoop(merge_in.rows, 1, @)]
    /\ merge_st' = [runs |-> merge_st.runs + 1, outcome |-> "completed",
                    first |-> IF merge_st.runs = 0 THEN tables' ELSE merge_st.first]
    /\ UNCHANGED <<classifyVars, parseVars, calls, first_verses, urduVars, dbVars, merge_in,
                   dir, listing, merge_log>>

\* one run of mrg_with_base_db.py or database_manage.py: the output database
\* is removed and built anew; each file of ayahs is committed with the loop,
\* the pages that database_manage.py inserted before a KeyError are not
MergeAyahs ==
    /\ merge_in.script \in {"mrg_with_base_db", "database_manage"}
    /\ merge_st.runs < MaxCalls
    /\ LET p == PagesLoop(merge_in.script, merge_in.pages, 1, <<>>)
       IN  /\ tables' = [tables EXCEPT
                 !.ayahs = AyahsLoop(merge_in.script, merge_in.ayahs, 1, <<>>),
                 !.ayah_pages = IF p.ok THEN p.rows ELSE <<>>]
           /\ merge_st' = [runs |-> merge_st.runs + 1,
                           outcome |-> IF p.ok THEN "completed" ELSE "KeyError",
                           first |-> IF merge_st.runs = 0 THEN tables' ELSE merge_st.first]
    /\ UNCHANGED <<classifyVars, parseVars, calls, first_verses, urduVars, dbVars, merge_in,
                   dir, listing, merge_log>>

\* what the merge scripts read
MaxRows == 2

\* Tafsir column values; a NULL is read as the empty text
RawTexts ==
    {<<>>, <<"x">>, <<" ">>, <<"<br>">>, <<"<", "b", ">">>, <<"<", "b", ">", "y">>,
     <<" ", "y", " ">>, <<"x", "<br>", " ", "<br>", "y">>}

\* SELECT ... FROM AQ ORDER BY SURA_num, AYA_num: rows in key order
AQRows ==
    {r \in UNION {[1..n -> [sura : {1}, aya : 1..2, text : RawTexts]] : n \in 0..MaxRows} :
        \A i, j \in DOMAIN r : i < j => PairLeq(<<r[i].sura, r[i].aya>>, <<r[j].sura, r[j].aya>>)}

\* entries of the ayahs JSON files, in the order they are read; keys are the
\* fields an entry has
AyahEntries ==
    UNION {[1..n -> [keys : {{"aya_id", "sura_id", "text"}, {"sura_id", "text"},
                             {"aya_id", "text"}, {"aya_id", "sura_id"}},
                     aya_id : 1..2, sura_id : {1}, text : {<<"x">>, <<>>}]] : n \in 0..MaxRows}

\* entries of the pages JSON files; segs tells the entries apart
PageEntries ==
    {[i \in DOMAIN e |-> [keys |-> e[i].keys, sura_id |-> e[i].sura_id,
                          aya_id |-> e[i].aya_id, segs |-> i]] :
        e \in UNION {[1..n -> [keys : {{"aya_id", "sura_id"}, {"sura_id"}, {"aya_id"}},
                               aya_id : 1..2, sura_id : {1}]] : n \in 0..MaxRows}}

MergeInputs ==
    [script : {"clean_and_merge"}, rows : AQRows, ayahs : {<<>>}, pages : {<<>>}]
        \cup [script : {"mrg_with_base_db", "database_manage"}, rows : {<<>>},
              ayahs : AyahEntries, pages : {<<>>}]
        \cup [script : {"mrg_with_base_db", "database_manage"}, rows : {<<>>},
              ayahs : {<<>>}, pages : PageEntries]

\* nothing has run yet
MergeStart ==
    /\ ClassifyIdle
    /\ src = <<>>
    /\ content = <<>>
    /\ pattern = 0
    /\ tried = {}
    /\ fallback_ran = FALSE
    /\ matches = <<>>
    /\ arabic_verses = <<>>
    /\ ret = "none"
    /\ calls = 1
    /\ first_verses = <<>>
    /\ urdu_translations = <<>>
    /\ first_urdu = <<>>
    /\ warning = <<>>
    /\ simple_file = NoUrduFile
    /\ arabic_simple = <<>>
    /\ db = [exists |-> FALSE, quran |-> <<>>]
    /\ db0 = db
    /\ outcome = "none"
    /\ merge_st = [runs |-> 0, outcome |-> "none", first |-> <<>>]

\* a merge script is about to run, or parse_urdu_translation is about to
\* read a translation file
InitMerge ==
    /\ MergeStart
    /\ \/ /\ pc = "idle"
          /\ urdu_file = NoUrduFile
          /\ merge_in \in MergeInputs
          /\ FilesIdle
          /\ tables \in [tafsir : {<<>>, <<[pk |-> <<1, 1>>, text |-> <<"o">>]>>},
                         ayahs : {<<>>}, ayah_pages : {<<>>}]
       \/ /\ pc = "done"
          /\ urdu_file \in UrduFiles
          /\ MergeIdle

NextMerge == CleanAndMerge \/ MergeAyahs \/ ParseUrdu

SpecMerge == InitMerge /\ [][NextMerge]_vars

(***************************************************************************)
(* Properties of the merges                                                *)
(***************************************************************************)

\* a text with a symbol that is not whitespace
Visible(t) == \E i \in DOMAIN t : t[i] \notin {" ", "\t", "\n"}

\* the greatest element of a non-empty set of numbers
Last(S) == CHOOSE i \in S : \A j \in S : j <= i

C17_MergeTwiceIsMergeOnce ==
    (merge_in.script # "none" /\ merge_st.runs >= 2) =>
        /\ tables.tafsir = merge_st.first.tafsir
        /\ tables.ayahs = merge_st.first.ayahs
        /\ \A i, j \in DOMAIN tables.tafsir :
              tables.tafsir[i].pk = tables.tafsir[j].pk => i = j
        /\ \A i, j \in DOMAIN tables.ayahs :
              tables.ayahs[i].pk = tables.ayahs[j].pk => i = j

\* a script has run twice and has rows in its table
C17_Witness ==
    /\ merge_st.runs = 2
    /\ \/ merge_in.script = "clean_and_merge" /\ Len(tables.tafsir) = 2
       \/ merge_in.script = "database_manage" /\ Len(tables.ayahs) = 2

\* C18 as stated: a translation or an alternate-orthography record whose
\* text is empty or whitespace is taken as absent, so a quran row never
\* holds such a text where the fallback holds a visible one
C18_BlankTextIsAbsent ==
    (pc = "end" /\ outcome = "completed") =>
        \A i \in DOMAIN db.quran :
            /\ Visible(db.quran[i].urduTranslation)
            /\ Visible(db.quran[i].arabicText) => Visible(db.quran[i].withoutAerab)

\* C19 as stated: after a merge of page entries, the ayah_pages rows of a
\* (sura_id, aya_id) are the entries that carry this key, one row each, in
\* the order of the entries, with rising page_id
C19_PagesAppendOnly ==
    (merge_in.script \in {"mrg_with_base_db", "database_manage"} /\ merge_st.runs >= 1) =>
        /\ \A a \in 1..2 :
              LET of(r) == r.sura_id = 1 /\ r.aya_id = a
                  rows == SelectSeq(tables.ayah_pages, of)
                  from == SelectSeq(merge_in.pages,
                                    LAMBDA e : {"aya_id", "sura_id"} \subseteq e.keys /\ of(e))
              IN  /\ Len(rows) = Len(from)
                  /\ \A i \in DOMAIN rows : rows[i].segs = from[i].segs
        /\ \A i, j \in DOMAIN tables.ayah_pages :
              i < j => tables.ayah_pages[i].pk < tables.ayah_pages[j].pk

\* C20 as stated: an entry without aya_id or without sura_id gets no row,
\* the script goes on to its end and every entry with both ids (and, for
\* ayahs, with the text the script asks for) gets its row
C20_MissingIdSkipped ==
    (merge_in.script \in {"mrg_with_base_db", "database_manage"} /\ merge_st.runs >= 1) =>
        /\ merge_st.outcome = "completed"
        /\ \A n \in DOMAIN merge_in.pages :
              ({"aya_id", "sura_id"} \subseteq merge_in.pages[n].keys)
                  <=> \E i \in DOMAIN tables.ayah_pages : tables.ayah_pages[i].segs = n
        /\ \A i \in DOMAIN tables.ayahs :
              \E n \in DOMAIN merge_in.ayahs :
                  /\ {"aya_id", "sura_id"} \subseteq merge_in.ayahs[n].keys
                  /\ merge_in.ayahs[n].aya_id = tables.ayahs[i].pk
        /\ \A n \in DOMAIN merge_in.ayahs :
              ({"aya_id", "sura_id", "text"} \subseteq merge_in.ayahs[n].keys
                  /\ merge_in.ayahs[n].text # <<>>)
                  => \E i \in DOMAIN tables.ayahs : tables.ayahs[i].pk = merge_in.ayahs[n].aya_id

(***************************************************************************)
(* Properties of the static tables and of the two classifiers together     *)
(***************************************************************************)

RECURSIVE VersesIn(_, _)
\* the verse counts of chapters lo..hi added up
VersesIn(lo, hi) ==
    IF lo = hi THEN AyahCount(lo)
    ELSE LET mid == (lo + hi) \div 2
         IN  VersesIn(lo, mid) + VersesIn(mid + 1, hi)

\* C26: the surah metadata has exactly 114 entries, the i-th having id i,
\* every verse count is at least 1, the counts add up to 6236, and 6236 is
\* the count parse_arabic_sql compares with
C26_MetadataIsCanonical ==
    /\ Len(surah_metadata) = 114
    /\ \A i \in DOMAIN surah_metadata :
          /\ surah_metadata[i][1] = i
          /\ AyahCount(i) >= 1
    /\ VersesIn(1, 114) = 6236
    /\ ExpectedVerses = 6236
    /\ MainInserted => quran_row.ayatNumber \in 1..AyahCount(quran_row.surahId)

\* the insert loop has walked to the last verse the metadata describes
C26_Witness ==
    /\ MainInserted
    /\ RowVerse = <<114, 6>>
    /\ cursor = Done

\* C28 as stated: for every valid (chapter, verse) the paraId that the scan
\* of create_siratemustaqeem_db stores is the part get_juz_for_verse returns
C28_SameClassification ==
    DbInserted => quran_row.paraId = get_juz_for_verse(RowVerse[1], RowVerse[2])

(***************************************************************************)
(* Further properties of run()                                             *)
(***************************************************************************)

\* C27 as stated: for a verse of chapter 2, whatever its number, the ruku
\* stored is between 1 and 19, the number of cutoffs, and a greater verse
\* number never gets a smaller ruku
C27_RukuCappedInChapterTwo ==
    (pc = "end" /\ outcome = "completed") =>
        \A i, j \in DOMAIN db.quran :
            db.quran[i].surahId = 2 =>
                /\ db.quran[i].surahRuku \in 1..19
                /\ (db.quran[j].surahId = 2 /\ db.quran[i].ayatNumber <= db.quran[j].ayatNumber)
                       => db.quran[i].surahRuku <= db.quran[j].surahRuku

\* C29 as stated: verse records with pairwise distinct sequence ids, none
\* negative, and pairwise distinct (chapter, verse) get pairwise distinct
\* ayatIds, so every record is inserted and no insert fails
C29_AyatIdUnique ==
    (pc = "end" /\ ret = "True"
        /\ \A i, j \in DOMAIN arabic_verses :
              /\ arabic_verses[i].id >= 0
              /\ i # j => /\ arabic_verses[i].id # arabic_verses[j].id
                          /\ <<arabic_verses[i].surah, arabic_verses[i].ayah>>
                                # <<arabic_verses[j].surah, arabic_verses[j].ayah>>) =>
        /\ outcome = "completed"
        /\ Len(db.quran) = Len(arabic_verses)
        /\ \A i, j \in DOMAIN db.quran : db.quran[i].ayatId = db.quran[j].ayatId => i = j

\* C30 as stated: when run() does not complete, the output database that
\* existed before the run still exists with the content it had
C30_FailedRunKeepsOldDatabase ==
    (pc = "end" /\ outcome # "completed" /\ db0.exists) => db = db0

(***************************************************************************)
(* The merge scripts reading their directories                             *)
(***************************************************************************)

\* what glob and os.listdir may give for n files: their names in any order
Listings(n) == {o \in [1..n -> 1..n] : \A i, j \in 1..n : o[i] = o[j] => i = j}

\* a printed line: its wording and the numbers it names
Msg(msg, about) == [msg |-> msg, about |-> about]

RECURSIVE load_json_files(_, _, _, _)
\* database_manage.py load_json_files: the lists of the files, in the order
\* of the listing, put end to end; a file that holds no list or does not
\* decode is passed over with a printed line
load_json_files(files, order, n, acc) ==
    IF n > Len(order) THEN acc
    ELSE LET f == files[order[n]]
         IN  load_json_files(files, order, n + 1,
                 IF f.kind = "list" THEN [acc EXCEPT !.data = @ \o f.entries]
                 ELSE IF f.kind = "object"
                 THEN [acc EXCEPT !.log = Append(@, Msg("Warning: does not contain a list",
                                                       <<order[n]>>))]
                 ELSE [acc EXCEPT !.log = Append(@, Msg("Error decoding", <<order[n]>>))])

RECURSIVE SkipMessages(_, _)
\* the lines the ayahs loop of database_manage.py prints for entries without text
SkipMessages(data, n) ==
    IF n > Len(data) THEN <<>>
    ELSE (IF {"aya_id", "sura_id"} \subseteq data[n].keys /\ "text" \notin data[n].keys
          THEN <<Msg("Skipping due to missing text", <<data[n].sura_id, data[n].aya_id>>)>>
          ELSE <<>>) \o SkipMessages(data, n + 1)

\* database_manage.py from the ayahs on: the ayahs are committed before the
\* pages are read; a KeyError in the pages loop ends the script before the
\* second commit
DatabaseManage(d, ao, po) ==
    LET a == load_json_files(d.ayahs, ao, 1, [data |-> <<>>, log |-> <<>>])
        skipped == Cardinality({i \in DOMAIN a.data : AyahSkipped("database_manage", a.data[i])})
        p == load_json_files(d.pages, po, 1, [data |-> <<>>, log |-> <<>>])
        pages == PagesLoop("database_manage", p.data, 1, <<>>)
        log == a.log \o <<Msg("Loaded ayahs", <<Len(a.data)>>)>> \o SkipMessages(a.data, 1)
                   \o <<Msg("Inserted ayahs, skipped", <<Len(a.data) - skipped, skipped>>)>>
                   \o p.log \o <<Msg("Loaded pages", <<Len(p.data)>>)>>
    IN  [outcome |-> IF pages.ok THEN "completed" ELSE "KeyError",
         ayahs |-> AyahsLoop("database_manage", a.data, 1, <<>>),
         ayah_pages |-> IF pages.ok THEN pages.rows ELSE <<>>,
         log |-> IF pages.ok
                 THEN log \o <<Msg("Ayah pages inserted successfully.", <<>>),
                               Msg("Database created", <<>>)>>
                 ELSE log]

RECURSIVE MrgFiles(_, _, _, _, _)
\* one directory loop of mrg_with_base_db.py: json.load is not guarded, so a
\* file that does not decode raises JSONDecodeError and a file holding an
\* object raises AttributeError at entry.get; the files before it were
\* committed one by one
MrgFiles(which, files, order, n, table) ==
    IF n > Len(order) THEN [outcome |-> "completed", rows |-> table]
    ELSE LET f == files[order[n]]
         IN  IF f.kind = "malformed" THEN [outcome |-> "JSONDecodeError", rows |-> table]
             ELSE IF f.kind = "object" THEN [outcome |-> "AttributeError", rows |-> table]
             ELSE MrgFiles(which, files, order, n + 1,
                      IF which = "ayahs"
                      THEN AyahsLoop("mrg_with_base_db", f.entries, 1, table)
                      ELSE PagesLoop("mrg_with_base_db", f.entries, 1, table).rows)

\* mrg_with_base_db.py from the ayahs on
MrgWithBaseDb(d, ao, po) ==
    LET a == MrgFiles("ayahs", d.ayahs, ao, 1, <<>>)
        p == MrgFiles("pages", d.pages, po, 1, <<>>)
    IN  IF a.outcome # "completed"
        THEN [outcome |-> a.outcome, ayahs |-> a.rows, ayah_pages |-> <<>>, log |-> <<>>]
        ELSE [outcome |-> p.outcome, ayahs |-> a.rows, ayah_pages |-> p.rows,
              log |-> IF p.outcome = "completed"
                      THEN <<Msg("New database created successfully", <<>>)>> ELSE <<>>]

\* one run of mrg_with_base_db.py or database_manage.py on the directories
MergeFiles ==
    /\ dir.script \in {"mrg_with_base_db", "database_manage"}
    /\ merge_st.runs < MaxCalls
    /\ \E ao \in Listings(Len(dir.ayahs)), po \in Listings(Len(dir.pages)) :
          LET r == IF dir.script = "database_manage" THEN DatabaseManage(dir, ao, po)
                   ELSE MrgWithBaseDb(dir, ao, po)
          IN  /\ listing' = [ayahs |-> ao, pages |-> po]
              /\ tables' = [tables EXCEPT !.ayahs = r.ayahs, !.ayah_pages = r.ayah_pages]
              /\ merge_log' = r.log
              /\ merge_st' = [runs |-> merge_st.runs + 1, outcome |-> r.outcome,
                              first |-> IF merge_st.runs = 0 THEN tables' ELSE merge_st.first]
    /\ UNCHANGED <<classifyVars, parseVars, calls, first_verses, urduVars, dbVars, merge_in, dir>>

\* files in a directory
MaxFiles == 2

AllKeys == {"aya_id", "sura_id", "text"}

\* what a file of ayahs/ may hold: a list of entries, text that is not JSON,
\* or a JSON object with a member
AyahFiles ==
    [kind : {"list"},
     entries : {<<[keys |-> AllKeys, aya_id |-> 1, sura_id |-> 1, text |-> <<"x">>]>>,
                <<[keys |-> AllKeys, aya_id |-> 1, sura_id |-> 1, text |-> <<"y">>]>>,
                <<[keys |-> AllKeys, aya_id |-> 1, sura_id |-> 2, text |-> <<"x">>]>>,
                <<[keys |-> AllKeys, aya_id |-> 2, sura_id |-> 1, text |-> <<"x">>]>>,
                <<[keys |-> {"aya_id", "sura_id"}, aya_id |-> 2, sura_id |-> 1, text |-> <<>>]>>}]
        \cup [kind : {"malformed", "object"}, entries : {<<>>}]

\* what a file of pages/ may hold
PageFiles ==
    [kind : {"list"},
     entries : {<<[keys |-> {"aya_id", "sura_id"}, sura_id |-> 1, aya_id |-> 1, segs |-> 1]>>,
                <<[keys |-> {"aya_id", "sura_id"}, sura_id |-> 1, aya_id |-> 2, segs |-> 2]>>,
                <<[keys |-> {"sura_id"}, sura_id |-> 1, aya_id |-> 0, segs |-> 3]>>}]
        \cup [kind : {"malformed", "object"}, entries : {<<>>}]

\* directories of up to MaxFiles files, the files named 1, 2, ...
Dirs(F) == UNION {[1..n -> F] : n \in 0..MaxFiles}

\* a script is about to read the two directories
InitFiles ==
    /\ MergeStart
    /\ pc = "idle"
    /\ urdu_file = NoUrduFile
    /\ merge_in = [script |-> "none", rows |-> <<>>, ayahs |-> <<>>, pages |-> <<>>]
    /\ tables = [tafsir |-> <<>>, ayahs |-> <<>>, ayah_pages |-> <<>>]
    /\ listing = [ayahs |-> <<>>, pages |-> <<>>]
    /\ merge_log = <<>>
    /\ dir \in [script : {"mrg_with_base_db", "database_manage"},
                ayahs : Dirs(AyahFiles), pages : {<<>>}]
           \cup [script : {"mrg_with_base_db", "database_manage"},
                 ayahs : {<<>>, <<[kind |-> "list",
                                   entries |-> <<[keys |-> AllKeys, aya_id |-> 1, sura_id |-> 1,
                                                  text |-> <<"x">>]>>]>>},
                 pages : Dirs(PageFiles)]

NextFiles == MergeFiles

SpecFiles == InitFiles /\ [][NextFiles]_vars

(***************************************************************************)
(* Properties of the directory merges                                      *)
(***************************************************************************)

\* the entries of the parsable files of a directory, in the order of a listing
ReadInOrder(files, order) ==
    load_json_files(files, order, 1, [data |-> <<>>, log |-> <<>>]).data

\* C21 as stated: a file that cannot be parsed does not end the run; the
\* entries of every parsable file are merged, in both scripts
C21_UnparsableFileSkipped ==
    merge_st.runs > 0 =>
        /\ merge_st.outcome \notin {"JSONDecodeError", "AttributeError"}
        /\ \A i \in DOMAIN dir.ayahs : \A k \in DOMAIN dir.ayahs[i].entries :
              ~AyahSkipped(dir.script, dir.ayahs[i].entries[k]) =>
                  \E r \in DOMAIN tables.ayahs :
                      tables.ayahs[r].pk = dir.ayahs[i].entries[k].aya_id
        /\ merge_st.outcome = "completed" =>
              \A i \in DOMAIN dir.pages : \A k \in DOMAIN dir.pages[i].entries :
                  {"aya_id", "sura_id"} \subseteq dir.pages[i].entries[k].keys =>
                      \E r \in DOMAIN tables.ayah_pages :
                          tables.ayah_pages[r].segs = dir.pages[i].entries[k].segs

\* the rows of a table, their order left aside
Rows(table) == {table[i] : i \in DOMAIN table}

\* C22 as stated: two runs over the same files end with the same row for
\* every aya_id and with the same pages in the same order, whatever order
\* the listings come in
C22_ListingOrderDoesNotMatter ==
    merge_st.runs >= 2 =>
        /\ Rows(tables.ayahs) = Rows(merge_st.first.ayahs)
        /\ tables.ayah_pages = merge_st.first.ayah_pages

\* C23 as stated: a run that does not complete leaves none of its records
\* committed
C23_AllOrNothing ==
    (merge_st.runs > 0 /\ merge_st.outcome # "completed") =>
        /\ tables.ayahs = <<>>
        /\ tables.ayah_pages = <<>>

\* C24 as stated: a page entry whose (sura_id, aya_id) has no row in ayahs is
\* stored and a printed line names it
C24_OrphanRetainedAndReported ==
    (merge_st.runs > 0 /\ merge_st.outcome = "completed") =>
        \A i \in DOMAIN dir.pages : \A k \in DOMAIN dir.pages[i].entries :
            LET e == dir.pages[i].entries[k]
            IN  ({"aya_id", "sura_id"} \subseteq e.keys
                    /\ ~\E r \in DOMAIN tables.ayahs :
                          /\ tables.ayahs[r].sura_id = e.sura_id
                          /\ tables.ayahs[r].pk = e.aya_id) =>
                    /\ \E r \in DOMAIN tables.ayah_pages : tables.ayah_pages[r].segs = e.segs
                    /\ \E m \in DOMAIN merge_log :
                          merge_log[m].about = <<e.sura_id, e.aya_id>>

\* C25 as stated: after a completed run every entry that was read with its
\* three fields is a row of ayahs, unless an entry read after it has the same
\* (sura_id, aya_id); entries with one aya_id and different sura_id are both rows
C25_NoRecordDropped ==
    (merge_st.runs > 0 /\ merge_st.outcome = "completed") =>
        LET data == ReadInOrder(dir.ayahs, listing.ayahs)
        IN  \A i \in DOMAIN data :
                (AllKeys \subseteq data[i].keys /\ data[i].text # <<>>) =>
                    \/ \E r \in DOMAIN tables.ayahs :
                          /\ tables.ayahs[r].pk = data[i].aya_id
                          /\ tables.ayahs[r].sura_id = data[i].sura_id
                          /\ tables.ayahs[r].text = data[i].text
                    \/ \E j \in DOMAIN data :
                          /\ j > i
                          /\ AllKeys \subseteq data[j].keys
                          /\ data[j].text # <<>>
                          /\ data[j].sura_id = data[i].sura_id
                          /\ data[j].aya_id = data[i].aya_id
====
